---- MODULE Spec2Model ----
(***************************************************************************)
(* Model of src/src/jira/jira-helper.js: the module-level variables, the   *)
(* exported asynchronous operations (one action per synchronous segment    *)
(* between two awaits) and the text functions they apply.                   *)
(*                                                                         *)
(* Strings that the code inspects character by character (file names, the  *)
(* git log output, ticket keys) are sequences of one-character strings.    *)
(***************************************************************************)
EXTENDS Integers, Sequences, FiniteSets, TLC

VARIABLES
  \* the file system and listXmlReports
  dirListing,               \* fs.readdirSync(dir), per directory, in enumeration order
  xmlReportFiles,           \* module variable, line 17
  listReturn,               \* the last direct listXmlReports call: its dir and result
  \* importXmlDataToXray
  xrayToken,                \* module variable, line 18
  ipc,                      \* per invocation: where its async body is suspended
  idir, ikey,               \* per invocation: the arguments dir, testExecutionKey
  authResult,               \* per invocation: state of its authenticate request
  importReqs,               \* import requests issued so far, in issue order
  iatStart,                 \* history: per invocation, ipc as it was when it started
  \* findRelatedJiraTicket
  gitLog,                   \* per invocation: what `git log a..b` prints
  trackerProjects,          \* per invocation: keys jira.listProjects() answers with
  verifiedJiraTicketsList,  \* module variable, line 19 (a reference into heap)
  jiraProjectKeysArray,     \* module variable, line 20
  branchToCompare,          \* module variable, line 21
  branchName,               \* module variable, line 22
  heap,                     \* the array objects created by line 160, by identity
  fpc,                      \* per invocation: where its async body is suspended
  initialJiraTicketsList,   \* per invocation: the local of line 170
  fresult,                  \* per invocation: the array reference it returned
  \* linkTestExecutionResults
  locale,                   \* the collation the shell's sort runs under
  linkTickets, linkPc, linkReqs, linkLog, unhandledRejections,
  \* addInfoAboutExecution
  annTickets, annPc, attachReqs, commentReqs, annLog

listVars   == <<dirListing, xmlReportFiles, listReturn>>
importVars == <<xrayToken, ipc, idir, ikey, authResult, importReqs, iatStart>>
findVars   == <<gitLog, trackerProjects, verifiedJiraTicketsList, jiraProjectKeysArray,
                branchToCompare, branchName, heap, fpc, initialJiraTicketsList, fresult,
                locale>>
linkVars   == <<linkTickets, linkPc, linkReqs, linkLog, unhandledRejections>>
annVars    == <<annTickets, annPc, attachReqs, commentReqs, annLog>>
vars       == <<listVars, importVars, findVars, linkVars, annVars>>

----------------------------------------------------------------------------
(* Bounds of the model *)

\* longest directory listing handed to listXmlReports
MaxFiles == 3
\* most words a modelled git log output is made of
MaxWords == 3
\* longest ticket list handed to the linker and the annotator
MaxTickets == 3

SeqsUpTo(S, n) == UNION {[1..k -> S] : k \in 0..n}

IsInjective(s) == \A i, j \in 1..Len(s) : s[i] = s[j] => i = j

Range(s) == {s[i] : i \in 1..Len(s)}

----------------------------------------------------------------------------
(* listXmlReports, lines 68-79 *)

\* characters the regular expression's `.` does not match
LineTerminators == {"\n", "\r"}

\* the literal pattern of line 71: /^.*.xml/ (both dots unescaped): any run of
\* characters from the start, then any one character, then "xml"
XmlRegexTest(s) ==
  \E k \in 2..(Len(s) - 2) :
     /\ s[k] = "x" /\ s[k + 1] = "m" /\ s[k + 2] = "l"
     /\ \A j \in 1..(k - 1) : s[j] \notin LineTerminators

\* the loop of lines 73-77: push, in order, every entry the pattern accepts
RECURSIVE ListXmlReports(_)
ListXmlReports(files) ==
  IF files = <<>> THEN <<>>
  ELSE (IF XmlRegexTest(Head(files)) THEN <<Head(files)>> ELSE <<>>)
         \o ListXmlReports(Tail(files))

Dirs == {"d1", "d2"}

\* file names a report directory may hold
NameAXml    == <<"a", ".", "x", "m", "l">>
NameBTxt    == <<"b", ".", "t", "x", "t">>
NameCUpper  == <<"c", ".", "X", "M", "L", ".", "b", "a", "k">>
NameRBak    == <<"r", ".", "x", "m", "l", ".", "b", "a", "k">>
NameNoDot   == <<"a", "x", "m", "l">>
NameBareXml == <<"x", "m", "l">>
NameDotXml  == <<".", "x", "m", "l">>

FileNames ==
  {NameAXml, NameBTxt, NameCUpper, NameRBak, NameNoDot, NameBareXml, NameDotXml}

Listings == {l \in SeqsUpTo(FileNames, MaxFiles) : IsInjective(l)}

\* a direct call listXmlReports(d): synchronous, no await inside
ListCall(d) ==
  /\ xmlReportFiles' = ListXmlReports(dirListing[d])
  /\ listReturn' = [dir |-> d, value |-> ListXmlReports(dirListing[d])]
  /\ UNCHANGED <<dirListing, importVars, findVars, linkVars, annVars>>

----------------------------------------------------------------------------
(* importXmlDataToXray, lines 89-129 *)

Calls == {"c1", "c2"}

ExecKeys == {"DEMO-101", "DEMO-102"}

\* line 23
projectKey == "DEMO"

\* the bearer token the add-on answers invocation c's authenticate request with
TokenOf(c) == <<"token", c>>

InProgress(pcs, c) == pcs[c] \in {"awaitList", "awaitAuth", "authSettled"}

\* lines 89-90: the call runs listXmlReports(dir) and suspends at the first await
ImportStart(c) ==
  /\ ipc[c] = "idle"
  /\ xmlReportFiles' = ListXmlReports(dirListing[idir[c]])
  /\ ipc' = [ipc EXCEPT ![c] = "awaitList"]
  /\ iatStart' = [iatStart EXCEPT ![c] = ipc]
  /\ UNCHANGED <<dirListing, listReturn, xrayToken, idir, ikey, authResult, importReqs>>
  /\ UNCHANGED <<findVars, linkVars, annVars>>

\* lines 91-102: resumed, the call sends the authenticate request and suspends
ImportAuthSend(c) ==
  /\ ipc[c] = "awaitList"
  /\ ipc' = [ipc EXCEPT ![c] = "awaitAuth"]
  /\ authResult' = [authResult EXCEPT ![c] = "pending"]
  /\ UNCHANGED <<listVars, xrayToken, idir, ikey, importReqs, iatStart>>
  /\ UNCHANGED <<findVars, linkVars, annVars>>

\* lines 103-105: the request resolves; the then-callback stores the token
ImportAuthResolve(c) ==
  /\ ipc[c] = "awaitAuth"
  /\ xrayToken' = TokenOf(c)
  /\ authResult' = [authResult EXCEPT ![c] = "resolved"]
  /\ ipc' = [ipc EXCEPT ![c] = "authSettled"]
  /\ UNCHANGED <<listVars, idir, ikey, importReqs, iatStart>>
  /\ UNCHANGED <<findVars, linkVars, annVars>>

\* lines 106-108: the request rejects; the catch-callback only logs
ImportAuthReject(c) ==
  /\ ipc[c] = "awaitAuth"
  /\ authResult' = [authResult EXCEPT ![c] = "rejected"]
  /\ ipc' = [ipc EXCEPT ![c] = "authSettled"]
  /\ UNCHANGED <<listVars, xrayToken, idir, ikey, importReqs, iatStart>>
  /\ UNCHANGED <<findVars, linkVars, annVars>>

\* a variant that issues no import when no token is held
NewImportReqsGated(c, files, dir, key, token) ==
  IF token = "undefined" THEN <<>>
  ELSE [i \in 1..Len(files) |->
          [call |-> c, dir |-> dir, file |-> files[i], projectKey |-> "DEMO",
           testExecKey |-> key, bearer |-> token, status |-> "inflight"]]

\* lines 110-121: one request per element of the module's file list, each built
\* from this invocation's dir and testExecutionKey and the module's token
NewImportReqs(c, files, dir, key, token) ==
  [i \in 1..Len(files) |->
     [call |-> c, dir |-> dir, file |-> files[i], projectKey |-> projectKey,
      testExecKey |-> key, bearer |-> token, status |-> "inflight"]]

\* a variant that awaits every import before starting the next one
ImportForEachAwaited(c) ==
  /\ ipc[c] = "authSettled"
  /\ importReqs' = importReqs \o
       [i \in 1..Len(xmlReportFiles) |->
          [call |-> c, dir |-> idir[c], file |-> xmlReportFiles[i], projectKey |-> "DEMO",
           testExecKey |-> ikey[c], bearer |-> xrayToken, status |-> "ok"]]
  /\ ipc' = [ipc EXCEPT ![c] = "done"]
  /\ UNCHANGED <<listVars, xrayToken, idir, ikey, authResult, iatStart>>
  /\ UNCHANGED <<findVars, linkVars, annVars>>

\* lines 110-129: resumed after the authenticate promise settled, the call runs
\* the whole forEach (every callback up to its own await) and returns
ImportForEach(c) ==
  /\ ipc[c] = "authSettled"
  /\ importReqs' = importReqs \o NewImportReqs(c, xmlReportFiles, idir[c], ikey[c], xrayToken)
  /\ ipc' = [ipc EXCEPT ![c] = "done"]
  /\ UNCHANGED <<listVars, xrayToken, idir, ikey, authResult, iatStart>>
  /\ UNCHANGED <<findVars, linkVars, annVars>>

\* lines 122-127: an import request settles; either callback only logs
ImportSettle(i, outcome) ==
  /\ i \in 1..Len(importReqs)
  /\ importReqs[i].status = "inflight"
  /\ importReqs' = [importReqs EXCEPT ![i].status = outcome]
  /\ UNCHANGED <<listVars, xrayToken, ipc, idir, ikey, authResult, iatStart>>
  /\ UNCHANGED <<findVars, linkVars, annVars>>

----------------------------------------------------------------------------
(* Text functions of findRelatedJiraTicket, lines 168-170 and 181-182 *)

LowerLetters == {"a", "b"}
UpperLetters == {"A", "B"}
Digits == {"1", "2"}

IsLetter(ch) == ch \in LowerLetters \cup UpperLetters
IsDigit(ch) == ch \in Digits
IsAlnum(ch) == IsLetter(ch) \/ IsDigit(ch)

\* String.prototype.toUpperCase, per character (line 169)
UpperChar(ch) == CASE ch = "a" -> "A" [] ch = "b" -> "B" [] OTHER -> ch
ToUpperCase(s) == [i \in 1..Len(s) |-> UpperChar(s[i])]

\* the byte of a character, the order of sort in the C locale
ByteOf(ch) ==
  CASE ch = "\n" -> 10 [] ch = " " -> 32 [] ch = "-" -> 45
    [] ch = "1" -> 49 [] ch = "2" -> 50
    [] ch = "A" -> 65 [] ch = "B" -> 66
    [] ch = "a" -> 97 [] ch = "b" -> 98

\* [a-zA-Z]\+ at s[i]: length of the longest run of letters starting there
LetterRunLen(s, i) ==
  IF i > Len(s) THEN 0
  ELSE LET ks == {k \in 0..(Len(s) - i + 1) : \A j \in i..(i + k - 1) : IsLetter(s[j])}
       IN  CHOOSE k \in ks : \A k2 \in ks : k2 <= k

\* [0-9]\+ at s[i]: length of the longest run of digits starting there
DigitRunLen(s, i) ==
  IF i > Len(s) THEN 0
  ELSE LET ks == {k \in 0..(Len(s) - i + 1) : \A j \in i..(i + k - 1) : IsDigit(s[j])}
       IN  CHOOSE k \in ks : \A k2 \in ks : k2 <= k

\* grep -e '[a-zA-Z]\+-[0-9]\+': length of the longest match starting at s[i], 0 if none
GrepMatchLen(s, i) ==
  LET n == LetterRunLen(s, i)
      m == DigitRunLen(s, i + n + 1)
  IN  IF n >= 1 /\ i + n <= Len(s) /\ s[i + n] = "-" /\ m >= 1 THEN n + 1 + m ELSE 0

\* grep -o: the non-overlapping matches, leftmost first, each the longest at its
\* start, one per output line (no match spans a line: "\n" is in no class)
RECURSIVE GrepOFrom(_, _)
GrepOFrom(s, i) ==
  IF i > Len(s) THEN <<>>
  ELSE LET n == GrepMatchLen(s, i)
       IN  IF n > 0 THEN <<SubSeq(s, i, i + n - 1)>> \o GrepOFrom(s, i + n)
           ELSE GrepOFrom(s, i + 1)

GrepO(s) == GrepOFrom(s, 1)

\* bytewise lexicographic order
RECURSIVE BytesLess(_, _)
BytesLess(a, b) ==
  IF b = <<>> THEN FALSE
  ELSE IF a = <<>> THEN TRUE
  ELSE IF ByteOf(Head(a)) # ByteOf(Head(b)) THEN ByteOf(Head(a)) < ByteOf(Head(b))
  ELSE BytesLess(Tail(a), Tail(b))

\* the order sort compares lines by: bytes in the C locale; in a dictionary
\* locale letters compare without case first, lower case before upper on a tie
Locales == {"C", "dict"}

SwapCase(s) ==
  [i \in 1..Len(s) |->
     CASE s[i] = "a" -> "A" [] s[i] = "b" -> "B"
       [] s[i] = "A" -> "a" [] s[i] = "B" -> "b" [] OTHER -> s[i]]

CollateLess(a, b, loc) ==
  IF loc = "C" THEN BytesLess(a, b)
  ELSE \/ BytesLess(ToUpperCase(a), ToUpperCase(b))
       \/ ToUpperCase(a) = ToUpperCase(b) /\ BytesLess(SwapCase(a), SwapCase(b))

\* sort -u: the distinct lines in ascending order
RECURSIVE SortSet(_, _)
SortSet(S, loc) ==
  IF S = {} THEN <<>>
  ELSE LET m == CHOOSE x \in S : \A y \in S \ {x} : CollateLess(x, y, loc)
       IN  <<m>> \o SortSet(S \ {m}, loc)

SortU(lines, loc) == SortSet(Range(lines), loc)

\* the text a command writes: every line followed by a newline
RECURSIVE JoinLines(_)
JoinLines(lines) ==
  IF lines = <<>> THEN <<>> ELSE Head(lines) \o <<"\n">> \o JoinLines(Tail(lines))

\* stdout of the pipeline of line 168 for the log text s
PipelineStdout(s, loc) == JoinLines(SortU(GrepO(s), loc))

\* String.prototype.split('\n') (line 169)
RECURSIVE SplitFrom(_, _, _)
SplitFrom(s, i, cur) ==
  IF i > Len(s) THEN <<cur>>
  ELSE IF s[i] = "\n" THEN <<cur>> \o SplitFrom(s, i + 1, <<>>)
  ELSE SplitFrom(s, i + 1, Append(cur, s[i]))

SplitNewline(s) == SplitFrom(s, 1, <<>>)

\* .filter(String): drops the empty strings (line 169)
FilterString(lines) == SelectSeq(lines, LAMBDA l : l # <<>>)

MapUpper(lines) == [i \in 1..Len(lines) |-> ToUpperCase(lines[i])]

\* a variant that keeps duplicates
SpreadOnly(xs) == xs

\* [...new Set(xs)]: the distinct elements in order of first insertion (line 170)
RECURSIVE SetSpread(_, _)
SetSpread(xs, acc) ==
  IF xs = <<>> THEN acc
  ELSE SetSpread(Tail(xs), IF Head(xs) \in Range(acc) THEN acc ELSE Append(acc, Head(xs)))

NewSetSpread(xs) == SetSpread(xs, <<>>)

\* lines 168-170: initialJiraTicketsList for the log text s
InitialTickets(s, loc) ==
  NewSetSpread(MapUpper(FilterString(SplitNewline(PipelineStdout(s, loc)))))

\* line 181: replace(/[^a-zA-Z]/g, '')
ExtractedKey(key) == SelectSeq(key, IsLetter)

\* line 182: match(/([a-zA-Z][a-zA-Z0-9]+-[0-9]+)/g) is not null (unanchored)
StrictMatch(key) ==
  \E i \in 1..Len(key) : \E j \in (i + 1)..Len(key) :
     /\ IsLetter(key[i])
     /\ \A k \in (i + 1)..j : IsAlnum(key[k])
     /\ j + 2 <= Len(key) /\ key[j + 1] = "-" /\ IsDigit(key[j + 2])

\* the condition of line 182
Verified(key, projectKeys) ==
  StrictMatch(key) /\ ExtractedKey(key) \in Range(projectKeys)

\* a variant that skips a failing candidate instead of throwing
RECURSIVE VerifyLoopSkipping(_, _, _)
VerifyLoopSkipping(candidates, projectKeys, pushed) ==
  IF candidates = <<>> THEN [list |-> pushed, threw |-> FALSE]
  ELSE VerifyLoopSkipping(Tail(candidates), projectKeys,
         IF Verified(Head(candidates), projectKeys)
         THEN Append(pushed, Head(candidates)) ELSE pushed)

\* lines 180-187: push every candidate in turn, throw at the first that fails
RECURSIVE VerifyLoop(_, _, _)
VerifyLoop(candidates, projectKeys, pushed) ==
  IF candidates = <<>> THEN [list |-> pushed, threw |-> FALSE]
  ELSE IF Verified(Head(candidates), projectKeys)
       THEN VerifyLoop(Tail(candidates), projectKeys, Append(pushed, Head(candidates)))
       ELSE [list |-> pushed, threw |-> TRUE]

----------------------------------------------------------------------------
(* findRelatedJiraTicket, lines 159-189 *)

\* the arguments currentBranchToCompare and currentBranchName of each invocation
BaseBranchOf(c) == "main"
HeadBranchOf(c) == IF c = "c1" THEN "feature-1" ELSE "feature-2"

\* lines 161-167
BranchRef(name, executedFromCI) == IF executedFromCI THEN <<"origin/", name>> ELSE <<name>>

\* lines 159-168: a fresh array replaces the module's list, the branch names are
\* stored, the shell pipeline is started (its command line is built from the
\* variables just written) and the call suspends
FindStart(c, executedFromCI) ==
  /\ fpc[c] = "idle"
  /\ heap' = [heap EXCEPT ![c] = <<>>]
  /\ verifiedJiraTicketsList' = c
  /\ branchToCompare' = BranchRef(BaseBranchOf(c), executedFromCI)
  /\ branchName' = BranchRef(HeadBranchOf(c), executedFromCI)
  /\ fpc' = [fpc EXCEPT ![c] = "awaitExec"]
  /\ UNCHANGED <<gitLog, trackerProjects, jiraProjectKeysArray, initialJiraTicketsList,
                 fresult, locale>>
  /\ UNCHANGED <<listVars, importVars, linkVars, annVars>>

\* lines 168-174: the pipeline's output arrives; the candidates are computed, the
\* module's project key array is replaced by a fresh one, listProjects is sent
FindExecDone(c) ==
  /\ fpc[c] = "awaitExec"
  /\ initialJiraTicketsList' =
       [initialJiraTicketsList EXCEPT ![c] = InitialTickets(gitLog[c], locale)]
  /\ jiraProjectKeysArray' = <<>>
  /\ fpc' = [fpc EXCEPT ![c] = "awaitProjects"]
  /\ UNCHANGED <<gitLog, trackerProjects, verifiedJiraTicketsList, branchToCompare,
                 branchName, heap, fresult, locale>>
  /\ UNCHANGED <<listVars, importVars, linkVars, annVars>>

\* lines 174-188: the project list arrives; its keys are pushed onto the module's
\* key array, the candidates are verified against that array and pushed onto the
\* array the module's list variable refers to now; the call returns that array
\* or throws
FindProjectsDone(c) ==
  /\ fpc[c] = "awaitProjects"
  /\ LET keys == jiraProjectKeysArray \o trackerProjects[c]
         target == verifiedJiraTicketsList
         run == VerifyLoop(initialJiraTicketsList[c], keys, heap[target])
     IN  /\ jiraProjectKeysArray' = keys
         /\ heap' = [heap EXCEPT ![target] = run.list]
         /\ fpc' = [fpc EXCEPT ![c] = IF run.threw THEN "threw" ELSE "returned"]
         /\ fresult' = [fresult EXCEPT ![c] = IF run.threw THEN "none" ELSE target]
  /\ UNCHANGED <<gitLog, trackerProjects, verifiedJiraTicketsList, branchToCompare,
                 branchName, initialJiraTicketsList, locale>>
  /\ UNCHANGED <<listVars, importVars, linkVars, annVars>>

\* line 174: listProjects rejects; the await rethrows and the call fails
FindProjectsFail(c) ==
  /\ fpc[c] = "awaitProjects"
  /\ fpc' = [fpc EXCEPT ![c] = "threw"]
  /\ UNCHANGED <<gitLog, trackerProjects, verifiedJiraTicketsList, jiraProjectKeysArray,
                 branchToCompare, branchName, heap, initialJiraTicketsList, fresult, locale>>
  /\ UNCHANGED <<listVars, importVars, linkVars, annVars>>

----------------------------------------------------------------------------
(* linkTestExecutionResults, lines 199-230 *)

TicketKeys == {"AB-1", "AB-2", "BA-1", "BA-2"}

TicketLists == {l \in SeqsUpTo(TicketKeys, MaxTickets) : IsInjective(l)}

PendingCalls(tickets) ==
  [i \in 1..Len(tickets) |-> [ticket |-> tickets[i], status |-> "pending"]]

\* lines 218-229: the informational message for an empty list, then forEach
\* starts one updateIssue per ticket; each callback suspends at its await, so the
\* try block ends without an exception and the operation returns
LinkCall ==
  /\ linkPc = "idle"
  /\ linkLog' = IF Len(linkTickets) = 0 THEN linkLog \cup {<<"no related tickets">>}
                ELSE linkLog
  /\ linkReqs' = PendingCalls(linkTickets)
  /\ linkPc' = "returned"
  /\ UNCHANGED <<linkTickets, unhandledRejections>>
  /\ UNCHANGED <<listVars, importVars, findVars, annVars>>

\* lines 224-225: updateIssue resolves; the callback logs the link
LinkResolve(i) ==
  /\ i \in 1..Len(linkReqs)
  /\ linkReqs[i].status = "pending"
  /\ linkReqs' = [linkReqs EXCEPT ![i].status = "ok"]
  /\ linkLog' = linkLog \cup {<<"linked", linkReqs[i].ticket>>}
  /\ UNCHANGED <<linkTickets, linkPc, unhandledRejections>>
  /\ UNCHANGED <<listVars, importVars, findVars, annVars>>

\* line 224: updateIssue rejects; the await rethrows inside the async callback,
\* whose promise forEach has discarded: no handler runs (the catch of line 227
\* belongs to a try block that has already ended) and nothing is logged
LinkReject(i) ==
  /\ i \in 1..Len(linkReqs)
  /\ linkReqs[i].status = "pending"
  /\ linkReqs' = [linkReqs EXCEPT ![i].status = "failed"]
  /\ unhandledRejections' = unhandledRejections \cup {linkReqs[i].ticket}
  /\ UNCHANGED <<linkTickets, linkPc, linkLog>>
  /\ UNCHANGED <<listVars, importVars, findVars, annVars>>

----------------------------------------------------------------------------
(* addInfoAboutExecution, lines 232-263 *)

\* lines 238-247: one addAttachmentOnIssue per ticket
AttachCalls(tickets) == PendingCalls(tickets)

\* a variant that comments on the first ticket only
CommentFirstOnly(tickets) == SubSeq(PendingCalls(tickets), 1, 1)

\* lines 254-261: one addCommentAdvanced per ticket
CommentCalls(tickets) == PendingCalls(tickets)

\* lines 233-262: the list is logged and the report stream opened; for an empty
\* list a message, otherwise both forEach passes run to the end (every callback
\* suspends at its own await)
AnnotateCall ==
  /\ annPc = "idle"
  /\ annLog' = annLog \cup {<<"tickets", annTickets>>}
                 \cup (IF Len(annTickets) = 0 THEN {<<"no related tickets">>} ELSE {})
  /\ attachReqs' = IF Len(annTickets) = 0 THEN <<>> ELSE AttachCalls(annTickets)
  /\ commentReqs' = IF Len(annTickets) = 0 THEN <<>> ELSE CommentCalls(annTickets)
  /\ annPc' = "returned"
  /\ UNCHANGED annTickets
  /\ UNCHANGED <<listVars, importVars, findVars, linkVars>>

\* lines 240-246: the attach call settles; the file name or the caught error is logged
AttachSettle(i, outcome) ==
  /\ i \in 1..Len(attachReqs)
  /\ attachReqs[i].status = "pending"
  /\ attachReqs' = [attachReqs EXCEPT ![i].status = outcome]
  /\ annLog' = annLog \cup {<<"attach", outcome, attachReqs[i].ticket>>}
  /\ UNCHANGED <<annTickets, annPc, commentReqs>>
  /\ UNCHANGED <<listVars, importVars, findVars, linkVars>>

\* lines 256-260: the comment call settles; the author or the caught error is logged
CommentSettle(i, outcome) ==
  /\ i \in 1..Len(commentReqs)
  /\ commentReqs[i].status = "pending"
  /\ commentReqs' = [commentReqs EXCEPT ![i].status = outcome]
  /\ annLog' = annLog \cup {<<"comment", outcome, commentReqs[i].ticket>>}
  /\ UNCHANGED <<annTickets, annPc, attachReqs>>
  /\ UNCHANGED <<listVars, importVars, findVars, linkVars>>

Outcomes == {"ok", "failed"}

----------------------------------------------------------------------------
(* Initial states: the module as loaded (lines 17-22 leave the variables      *)
(* undefined), no operation called yet                                        *)

ListLoaded ==
  /\ xmlReportFiles = "undefined"
  /\ listReturn = [dir |-> "none", value |-> <<>>]

ImportLoaded ==
  /\ xrayToken = "undefined"
  /\ ipc = [c \in Calls |-> "idle"]
  /\ authResult = [c \in Calls |-> "none"]
  /\ importReqs = <<>>
  /\ iatStart = [c \in Calls |-> [d \in Calls |-> "unknown"]]

FindLoaded ==
  /\ verifiedJiraTicketsList = "undefined"
  /\ jiraProjectKeysArray = "undefined"
  /\ branchToCompare = "undefined"
  /\ branchName = "undefined"
  /\ heap = [c \in Calls |-> "unallocated"]
  /\ fpc = [c \in Calls |-> "idle"]
  /\ initialJiraTicketsList = [c \in Calls |-> "unset"]
  /\ fresult = [c \in Calls |-> "none"]

LinkLoaded ==
  /\ linkPc = "idle" /\ linkReqs = <<>> /\ linkLog = {} /\ unhandledRejections = {}

AnnotateLoaded ==
  /\ annPc = "idle" /\ attachReqs = <<>> /\ commentReqs = <<>> /\ annLog = {}

\* inputs of the operations a specification does not exercise
NoFileSystem == dirListing = [d \in Dirs |-> <<>>]
NoImportArgs == idir = [c \in Calls |-> "d1"] /\ ikey = [c \in Calls |-> "DEMO-101"]
NoFindInputs ==
  /\ gitLog = [c \in Calls |-> <<>>]
  /\ trackerProjects = [c \in Calls |-> <<>>]
  /\ locale = "C"
NoLinkInput == linkTickets = <<>>
NoAnnotateInput == annTickets = <<>>

Loaded == ListLoaded /\ ImportLoaded /\ FindLoaded /\ LinkLoaded /\ AnnotateLoaded

----------------------------------------------------------------------------
(* Specification of listXmlReports over every directory listing *)

InitList ==
  /\ Loaded /\ NoImportArgs /\ NoFindInputs /\ NoLinkInput /\ NoAnnotateInput
  /\ \E l \in Listings : dirListing = [d \in Dirs |-> IF d = "d1" THEN l ELSE <<>>]

NextList == \E d \in Dirs : ListCall(d)

SpecList == InitList /\ [][NextList]_vars

----------------------------------------------------------------------------
(* Specification of importXmlDataToXray: two invocations, in sequence or       *)
(* overlapping at their awaits                                                 *)

\* most entries of a directory handed to importXmlDataToXray
MaxImportFiles == 2

ImportListings ==
  {l \in Listings : Len(l) <= MaxImportFiles /\ Range(l) \subseteq {NameAXml, NameBTxt, NameNoDot}}

InitImport ==
  /\ Loaded /\ NoFindInputs /\ NoLinkInput /\ NoAnnotateInput
  /\ \E l \in ImportListings :
        dirListing = [d \in Dirs |-> IF d = "d1" THEN l ELSE <<NameDotXml, NameBTxt>>]
  /\ idir \in [Calls -> Dirs]
  /\ ikey \in [Calls -> ExecKeys]

NextImport ==
  \/ \E c \in Calls : ImportStart(c)
  \/ \E c \in Calls : ImportAuthSend(c)
  \/ \E c \in Calls : ImportAuthResolve(c)
  \/ \E c \in Calls : ImportAuthReject(c)
  \/ \E c \in Calls : ImportForEach(c)
  \/ \E i \in 1..Len(importReqs) : \E o \in Outcomes : ImportSettle(i, o)

SpecImport == InitImport /\ [][NextImport]_vars

----------------------------------------------------------------------------
(* Specification of one findRelatedJiraTicket invocation over every log text   *)
(* made of at most MaxWords words, every project list and both collations      *)

WordAb1   == <<"a", "b", "-", "1">>
WordAB1   == <<"A", "B", "-", "1">>
WordBa2   == <<"b", "a", "-", "2">>
WordA1    == <<"a", "-", "1">>
WordAb    == <<"a", "b">>
WordDash1 == <<"-", "1">>
WordTwo   == <<"2">>
WordSpace == <<" ">>
WordNl    == <<"\n">>

Words == {WordAb1, WordAB1, WordBa2, WordA1, WordAb, WordDash1, WordTwo, WordSpace, WordNl}

RECURSIVE Concat(_)
Concat(ws) == IF ws = <<>> THEN <<>> ELSE Head(ws) \o Concat(Tail(ws))

LogTexts == {Concat(ws) : ws \in SeqsUpTo(Words, MaxWords)}

KeyA  == <<"A">>
KeyAB == <<"A", "B">>
KeyBA == <<"B", "A">>

ProjectLists == {<<KeyAB>>, <<KeyAB, KeyBA>>, <<KeyA, KeyAB>>}

InitTickets ==
  /\ Loaded /\ NoFileSystem /\ NoImportArgs /\ NoLinkInput /\ NoAnnotateInput
  /\ \E t \in LogTexts : gitLog = [c \in Calls |-> IF c = "c1" THEN t ELSE <<>>]
  /\ \E p \in ProjectLists : trackerProjects = [c \in Calls |-> IF c = "c1" THEN p ELSE <<>>]
  /\ locale \in Locales

NextTickets ==
  \/ \E ci \in BOOLEAN : FindStart("c1", ci)
  \/ FindExecDone("c1")
  \/ FindProjectsDone("c1")
  \/ FindProjectsFail("c1")

SpecTickets == InitTickets /\ [][NextTickets]_vars

----------------------------------------------------------------------------
(* Specification of two findRelatedJiraTicket invocations, in sequence or      *)
(* overlapping at their awaits                                                 *)

OverlapLogs ==
  {WordAb1, WordBa2 \o WordSpace \o WordAb1, WordAB1 \o WordNl \o WordA1, <<>>}

InitFind ==
  /\ Loaded /\ NoFileSystem /\ NoImportArgs /\ NoLinkInput /\ NoAnnotateInput
  /\ gitLog \in [Calls -> OverlapLogs]
  /\ trackerProjects \in [Calls -> ProjectLists]
  /\ locale \in Locales

NextFind ==
  \/ \E c \in Calls : \E ci \in BOOLEAN : FindStart(c, ci)
  \/ \E c \in Calls : FindExecDone(c)
  \/ \E c \in Calls : FindProjectsDone(c)
  \/ \E c \in Calls : FindProjectsFail(c)

SpecFind == InitFind /\ [][NextFind]_vars

----------------------------------------------------------------------------
(* Specification of linkTestExecutionResults over every ticket list *)

InitLink ==
  /\ Loaded /\ NoFileSystem /\ NoImportArgs /\ NoFindInputs /\ NoAnnotateInput
  /\ linkTickets \in TicketLists

NextLink ==
  \/ LinkCall
  \/ \E i \in 1..Len(linkReqs) : LinkResolve(i)
  \/ \E i \in 1..Len(linkReqs) : LinkReject(i)

SpecLink == InitLink /\ [][NextLink]_vars

----------------------------------------------------------------------------
(* Specification of addInfoAboutExecution over every ticket list *)

InitAnnotate ==
  /\ Loaded /\ NoFileSystem /\ NoImportArgs /\ NoFindInputs /\ NoLinkInput
  /\ annTickets \in TicketLists

NextAnnotate ==
  \/ AnnotateCall
  \/ \E i \in 1..Len(attachReqs) : \E o \in Outcomes : AttachSettle(i, o)
  \/ \E i \in 1..Len(commentReqs) : \E o \in Outcomes : CommentSettle(i, o)

SpecAnnotate == InitAnnotate /\ [][NextAnnotate]_vars

----------------------------------------------------------------------------
(* Properties of listXmlReports *)

\* the name holds the literal substring ".xml"
ContainsDotXml(s) ==
  \E k \in 1..(Len(s) - 3) :
     s[k] = "." /\ s[k + 1] = "x" /\ s[k + 2] = "m" /\ s[k + 3] = "l"

\* C3: listXmlReports returns exactly the entries whose name contains the literal
\* substring ".xml" (case-sensitive, anywhere in the name), in enumeration order.
C3_ExactlyDotXml ==
  listReturn.dir # "none" =>
     listReturn.value = SelectSeq(dirListing[listReturn.dir], ContainsDotXml)

----------------------------------------------------------------------------
(* Properties of importXmlDataToXray *)

\* another invocation was in progress when c started, or started while c was
Overlapped(c) ==
  \E d \in Calls \ {c} : InProgress(iatStart[c], d) \/ InProgress(iatStart[d], c)

\* the import requests invocation c has issued, in issue order
ReqsOf(c) == SelectSeq(importReqs, LAMBDA r : r.call = c)

\* the requests are one per file listed from invocation c's own directory, in
\* order, each read from that directory and tagged with c's key and DEMO
OwnImports(c) ==
  LET rs == ReqsOf(c)
      listed == ListXmlReports(dirListing[idir[c]])
  IN  /\ Len(rs) = Len(listed)
      /\ \A i \in 1..Len(rs) :
            /\ rs[i].file = listed[i]
            /\ rs[i].dir = idir[c]
            /\ rs[i].testExecKey = ikey[c]
            /\ rs[i].projectKey = "DEMO"

C7_OverlapKeepsOwnFiles ==
  \A c, d \in Calls :
     (/\ idir[c] # idir[d] /\ ikey[c] # ikey[d]
      /\ iatStart[d][c] = "awaitAuth"
      /\ ipc[c] = "done" /\ ipc[d] = "done") => (OwnImports(c) /\ OwnImports(d))

\* C8: in a sequence of invocations, one whose authentication failed still
\* issues its imports, and they carry an undefined bearer token.
C8_FailedAuthUndefinedToken ==
  \A c \in Calls :
     (ipc[c] = "done" /\ ~Overlapped(c) /\ authResult[c] = "rejected") =>
        /\ Len(ReqsOf(c)) = Len(ListXmlReports(dirListing[idir[c]]))
        /\ \A i \in 1..Len(ReqsOf(c)) : ReqsOf(c)[i].bearer = "undefined"

\* no import of c exists before its authenticate request has settled
NoImportBeforeAuthSettled ==
  \A c \in Calls : ipc[c] \in {"idle", "awaitList", "awaitAuth"} => ReqsOf(c) = <<>>

\* the step in which c completes starts one import per entry of the file list,
\* and all of them are still in flight when the caller sees the completion
CompletesWithImportsInFlight ==
  \A c \in Calls :
     (ipc[c] # "done" /\ ipc'[c] = "done") =>
        /\ Len(importReqs') = Len(importReqs) + Len(xmlReportFiles)
        /\ SubSeq(importReqs', 1, Len(importReqs)) = importReqs
        /\ \A i \in (Len(importReqs) + 1)..Len(importReqs') :
              importReqs'[i].call = c /\ importReqs'[i].status = "inflight"

----------------------------------------------------------------------------
(* Properties of findRelatedJiraTicket *)

\* s is, as a whole, [A-Za-z]+-[0-9]+
IsLooseKey(s) ==
  \E d \in 2..(Len(s) - 1) :
     /\ s[d] = "-"
     /\ \A k \in 1..(d - 1) : IsLetter(s[k])
     /\ \A k \in (d + 1)..Len(s) : IsDigit(s[k])

\* s is, as a whole, [A-Za-z][A-Za-z0-9]+-[0-9]+
IsStrictKey(s) ==
  \E d \in 3..(Len(s) - 1) :
     /\ s[d] = "-"
     /\ IsLetter(s[1])
     /\ \A k \in 2..(d - 1) : IsAlnum(s[k])
     /\ \A k \in (d + 1)..Len(s) : IsDigit(s[k])

\* the alphabetic prefix of a key: what precedes its first dash
PrefixOf(s) ==
  LET d == CHOOSE k \in 1..Len(s) : s[k] = "-" /\ \A j \in 1..(k - 1) : s[j] # "-"
  IN  SubSeq(s, 1, d - 1)

HasDash(s) == \E k \in 1..Len(s) : s[k] = "-"

\* the key passes both checks against the project keys the call fetched
PassesChecks(key, projects) ==
  IsStrictKey(key) /\ HasDash(key) /\ PrefixOf(key) \in Range(projects)

\* C1: the call either returns the complete deduplicated, uppercased candidate
\* list, every key of which matches [A-Za-z][A-Za-z0-9]+-[0-9]+ and has its
\* prefix among the project keys fetched by the call, or, if a candidate fails
\* a check, throws and returns nothing.
C1_AllOrNothing ==
  LET c == "c1"
      candidates == InitialTickets(gitLog[c], locale)
  IN  /\ fpc[c] = "returned" =>
            /\ fresult[c] # "none"
            /\ heap[fresult[c]] = candidates
            /\ \A i \in 1..Len(candidates) : PassesChecks(candidates[i], trackerProjects[c])
      /\ (/\ fpc[c] \in {"returned", "threw"}
          /\ \E i \in 1..Len(candidates) : ~PassesChecks(candidates[i], trackerProjects[c]))
         => (fpc[c] = "threw" /\ fresult[c] = "none")

\* C1 witness: a call has returned a list of two verified keys.
C1_Witness ==
  /\ fpc["c1"] = "returned"
  /\ Len(heap[fresult["c1"]]) = 2

\* the call has computed its candidates (line 170 has run)
Extracted(c) == fpc[c] \in {"awaitProjects", "returned", "threw"}

\* every element is the upper case of a substring of the log that is, as a
\* whole, [A-Za-z]+-[0-9]+; no element occurs twice
OnlyUppercasedMatches(r, t) ==
  /\ \A i \in 1..Len(r) :
        \E a \in 1..Len(t) : \E b \in a..Len(t) :
           IsLooseKey(SubSeq(t, a, b)) /\ ToUpperCase(SubSeq(t, a, b)) = r[i]
  /\ IsInjective(r)

\* the spelling of key k, among the substrings grep extracts from t, that sorts first
FirstSorted(k, t, loc) ==
  LET spellings == {m \in Range(GrepO(t)) : ToUpperCase(m) = k}
  IN  CHOOSE m \in spellings : \A n \in spellings \ {m} : CollateLess(m, n, loc)

\* C2 (as stated): the extraction yields only substrings matching
\* [A-Za-z]+-[0-9]+, uppercased, without duplicates, in the order of each key's
\* first occurrence in the commit log.
C2_FirstOccurrenceOrder ==
  Extracted("c1") =>
     /\ OnlyUppercasedMatches(initialJiraTicketsList["c1"], gitLog["c1"])
     /\ initialJiraTicketsList["c1"] = NewSetSpread(MapUpper(GrepO(gitLog["c1"])))

\* C2 (amended): the extraction yields only substrings matching
\* [A-Za-z]+-[0-9]+, uppercased, without duplicates, in the order in which sort
\* places the extracted substrings: a key comes before another exactly when its
\* first-sorting spelling sorts before the other's.
C2_SortedOrder ==
  LET r == initialJiraTicketsList["c1"]
      t == gitLog["c1"]
  IN  Extracted("c1") =>
         /\ OnlyUppercasedMatches(r, t)
         /\ \A i, j \in 1..Len(r) :
               i < j => CollateLess(FirstSorted(r[i], t, locale), FirstSorted(r[j], t, locale), locale)

\* C2 witness: two keys were extracted, in an order that is not the order of
\* their first occurrence in the log.
C2_Witness ==
  /\ Extracted("c1")
  /\ Len(initialJiraTicketsList["c1"]) = 2
  /\ initialJiraTicketsList["c1"] # NewSetSpread(MapUpper(GrepO(gitLog["c1"])))

\* C10: the list a successful call returned holds exactly the verified
\* candidates of that call's own commit log, also when invocations overlap, and
\* stays so after the return.
C10_ReturnedListIsOwn ==
  \A c \in Calls :
     fpc[c] = "returned" => heap[fresult[c]] = InitialTickets(gitLog[c], locale)

----------------------------------------------------------------------------
(* Properties of linkTestExecutionResults *)

\* C5: when updateIssue fails for a ticket, the operation itself catches and
\* logs the error (no unhandled rejection), and an updateIssue call is still
\* issued for every other ticket of the list.
C5_LinkErrorsCaught ==
  \A i \in 1..Len(linkReqs) :
     linkReqs[i].status = "failed" =>
        /\ <<"error", linkReqs[i].ticket>> \in linkLog
        /\ linkReqs[i].ticket \notin unhandledRejections
        /\ \A j \in 1..Len(linkTickets) : linkReqs[j].ticket = linkTickets[j]

----------------------------------------------------------------------------
(* Properties of addInfoAboutExecution *)

\* C6: once called with a non-empty list, the operation has issued exactly one
\* attach call and one comment call per ticket, whatever the outcome of any of
\* them; with an empty list it issues neither.
C6_OneAttachOneCommentPerTicket ==
  annPc = "returned" =>
     /\ Len(attachReqs) = Len(annTickets)
     /\ Len(commentReqs) = Len(annTickets)
     /\ \A i \in 1..Len(annTickets) :
           attachReqs[i].ticket = annTickets[i] /\ commentReqs[i].ticket = annTickets[i]

\* C6 witness: for a list of two tickets the attach call of the first failed
\* while its comment call succeeded, and the comment call of the second failed.
C6_Witness ==
  /\ annPc = "returned"
  /\ Len(annTickets) = 2
  /\ attachReqs[1].status = "failed" /\ commentReqs[1].status = "ok"
  /\ commentReqs[2].status = "failed" /\ attachReqs[2].status = "pending"

====
